---- MODULE Spec2Model ----
(***************************************************************************)
(* awsmpirun, the exec-path variant of cmd/root.go (flags -n, -v, -e).      *)
(* runAWSMPIRun: discoverInstances -> select the first numInstances ->      *)
(* assignRanks -> executeProgram (one goroutine per instance doing          *)
(* SendCommand, wg.Wait, then getCommandOutput on rank 0).                  *)
(*                                                                         *)
(* The EC2 and SSM services are the environment: DescribeInstances returns  *)
(* a listing or an error, SendCommand succeeds or fails per instance, an    *)
(* accepted invocation moves Pending -> InProgress -> terminal status, and  *)
(* GetCommandInvocation answers with the invocation's status, a throttling  *)
(* error or another error.                                                  *)
(***************************************************************************)
EXTENDS Integers, Sequences, FiniteSets, TLC

VARIABLES
    listing,        \* the instances DescribeInstances would return, in order
    numInstances,   \* the --num-instances flag
    pc,             \* position of the main goroutine
    instances,      \* result of discoverInstances
    selected,       \* selectedInstances (the fleet), ranks included
    tpc,            \* position of each dispatch goroutine (by fleet index)
    tres,           \* each dispatch goroutine's local SendCommand result
    wg,             \* the WaitGroup counter
    mu,             \* holder of the mutex (0 = unlocked)
    errorsOccurred, \* shared flag
    commandIDs,     \* shared map instance id -> command id, as a set of <<id, command id>>
    sends,          \* SendCommand inputs the service received, per instance id
    inv,            \* the service's invocation status, per instance id
    queried,        \* instance ids a GetCommandInvocation was issued for
    lastResp,       \* the last answer getCommandOutput received
    throttles,      \* throttling errors getCommandOutput has received
    execErr,        \* what executeProgram returned ("running" before it returns)
    stdout,         \* lines printed so far (as a set)
    exitCode        \* process exit status (-1 while running)

vars == <<listing, numInstances, pc, instances, selected, tpc, tres, wg, mu,
          errorsOccurred, commandIDs, sends, inv, queried, lastResp, throttles,
          execErr, stdout, exitCode>>

-----------------------------------------------------------------------------
(* Bounds of the model *)

MaxNodes == 3        \* instances the VPC listing may hold
MaxRequested == 2    \* largest --num-instances tried
MaxThrottle == 2     \* throttling errors the service may answer with

NodeIds == 1..MaxNodes

-----------------------------------------------------------------------------
(* Values *)

Nil == <<"nil", 0>>              \* a nil *string in the EC2 answer
EmptyStr == <<"", 0>>            \* the Go empty string
Wildcard == <<"0.0.0.0", 0>>     \* the literal "0.0.0.0"
NoId == 0                        \* a nil InstanceId
Unassigned == -1                 \* InstanceRank before assignRanks

\* What EC2 reports for an instance.  Instance 3 has no private address yet;
\* odd instances have a public address.
PrivateIpAddress(id) == IF id = 3 THEN Nil ELSE <<"10.0.0", id>>
PublicIpAddress(id) == IF id % 2 = 1 THEN <<"54.0.0", id>> ELSE Nil

Ec2Instance(id) ==
    [InstanceId |-> id,
     PrivateIpAddress |-> PrivateIpAddress(id),
     PublicIpAddress |-> PublicIpAddress(id)]

\* aws.ToString: nil becomes "".
awsToString(p) == IF p = Nil THEN EmptyStr ELSE p

\* The command id SSM returns for an accepted SendCommand to instance id.
CommandIdFor(id) == <<"cmd", id>>

\* Go's zero value for a missing map key.
NoCommand == <<"", 0>>

\* StandardOutputContent of the invocation on instance id.
StandardOutput(id) == <<"stdout", id>>

\* Injective sequences over S: the orders in which EC2 may list instances.
InjectiveSeqs(S) ==
    UNION {{s \in [1..n -> S] : \A i, j \in 1..n : i # j => s[i] # s[j]}
           : n \in 0..Cardinality(S)}

NonTerminal == {"Pending", "InProgress"}
Terminal == {"Success", "Failed", "TimedOut"}

-----------------------------------------------------------------------------
(* discoverInstances: the filter-and-append loop over the listing *)

RECURSIVE Collect(_)
Collect(l) ==
    IF l = <<>> THEN <<>>
    ELSE LET instance == Head(l)
             rest == Collect(Tail(l))
         IN IF instance.InstanceId # NoId /\ instance.PrivateIpAddress # Nil
            THEN <<[InstanceID |-> instance.InstanceId,
                    PrivateIP |-> instance.PrivateIpAddress,
                    PublicIP |-> awsToString(instance.PublicIpAddress),
                    InstanceRank |-> Unassigned]>> \o rest
            ELSE rest

(* assignRanks: instances[i].InstanceRank = i, Go indices from 0 *)

\* Variant: the loop assigns to a copy, the ranks stay unassigned.
assignRanks_OnCopy(insts) == insts

\* Variant: ranks counted from 1.
RankOf_FromOne(i) == i

RankOf(i) == i - 1

assignRanks(insts) ==
    [i \in DOMAIN insts |-> [insts[i] EXCEPT !.InstanceRank = RankOf(i)]]

-----------------------------------------------------------------------------
(* executeProgram: the environment a dispatch goroutine composes *)

\* Variant: the wildcard is given to the leader's entry instead of the local one.
IsLocal_Leader(inst, instance) == inst.InstanceRank = 0

IsLocal(inst, instance) == inst.InstanceID = instance.InstanceID

Address(inst, instance) ==
    IF IsLocal(inst, instance) THEN Wildcard
    ELSE IF inst.PrivateIP = EmptyStr THEN inst.PublicIP
    ELSE inst.PrivateIP

ComposeEnv(insts, instance) ==
    [MPI_RANK |-> instance.InstanceRank,
     MPI_SIZE |-> Len(insts),
     MPI_ADDRESS |-> [k \in DOMAIN insts |->
                        [rank |-> insts[k].InstanceRank,
                         address |-> Address(insts[k], instance)]]]

Fleet == DOMAIN selected

\* The dispatch goroutines that exist (none before the loop has started them).
Tasks == DOMAIN tpc

\* The answers DescribeInstances may give: any set of instances in any order.
Listings == {[k \in DOMAIN s |-> Ec2Instance(s[k])] : s \in InjectiveSeqs(NodeIds)}

-----------------------------------------------------------------------------
Init ==
    /\ listing \in Listings
    /\ numInstances \in 0..MaxRequested
    /\ pc = "discover"
    /\ instances = <<>>
    /\ selected = <<>>
    /\ tpc = <<>>
    /\ tres = <<>>
    /\ wg = 0
    /\ mu = 0
    /\ errorsOccurred = FALSE
    /\ commandIDs = {}
    /\ sends = [id \in NodeIds |-> <<>>]
    /\ inv = [id \in NodeIds |-> "None"]
    /\ queried = {}
    /\ lastResp = "none"
    /\ throttles = 0
    /\ execErr = "running"
    /\ stdout = {}
    /\ exitCode = -1

-----------------------------------------------------------------------------
(* Shared state of executeProgram *)

HasHandle(id) == \E e \in commandIDs : e[1] = id

\* commandIDs[id]: the stored command id, or "" when the key is missing.
Lookup(id) ==
    IF HasHandle(id) THEN (CHOOSE e \in commandIDs : e[1] = id)[2] ELSE NoCommand

\* Variant: the store replaces the whole map (a lost update).
StoreHandle_Overwrite(m, id, commandID) == {<<id, commandID>>}

\* commandIDs[id] = commandID
StoreHandle(m, id, commandID) == {e \in m : e[1] # id} \cup {<<id, commandID>>}

-----------------------------------------------------------------------------
(* runAWSMPIRun, steps 1-3 *)

Exit(code) == /\ pc' = "exit"
              /\ exitCode' = code

\* discoverInstances returns the filtered listing.
DiscoverOk ==
    /\ pc = "discover"
    /\ instances' = Collect(listing)
    /\ pc' = "select"
    /\ UNCHANGED <<listing, numInstances, selected, tpc, tres, wg, mu, errorsOccurred,
                   commandIDs, sends, inv, queried, lastResp, throttles, execErr,
                   stdout, exitCode>>

\* Variant: the error is printed but the run carries on with no instances.
DiscoverFail_NoExit ==
    /\ pc = "discover"
    /\ stdout' = stdout \cup {<<"Error discovering instances", 0>>}
    /\ pc' = "select"
    /\ UNCHANGED <<listing, numInstances, instances, selected, tpc, tres, wg, mu,
                   errorsOccurred, commandIDs, sends, inv, queried, lastResp,
                   throttles, execErr, exitCode>>

\* The EC2 client cannot be created or DescribeInstances fails.
DiscoverFail ==
    /\ pc = "discover"
    /\ stdout' = stdout \cup {<<"Error discovering instances", 0>>}
    /\ Exit(1)
    /\ UNCHANGED <<listing, numInstances, instances, selected, tpc, tres, wg, mu,
                   errorsOccurred, commandIDs, sends, inv, queried, lastResp,
                   throttles, execErr>>

\* Variant: a requested size that is not positive is refused as well.
Insufficient_OrNotPositive(available, requested) ==
    available < requested \/ requested <= 0

\* len(instances) < numInstances
Insufficient(available, requested) == available < requested

Select ==
    /\ pc = "select"
    /\ IF Insufficient(Len(instances), numInstances)
       THEN /\ stdout' = stdout \cup {<<"Not enough instances in the VPC", 0>>}
            /\ Exit(1)
            /\ UNCHANGED selected
       ELSE /\ selected' = SubSeq(instances, 1, numInstances)
            /\ pc' = "assign"
            /\ UNCHANGED <<stdout, exitCode>>
    /\ UNCHANGED <<listing, numInstances, instances, tpc, tres, wg, mu, errorsOccurred,
                   commandIDs, sends, inv, queried, lastResp, throttles, execErr>>

\* assignRanks(selectedInstances); the slice instances[:numInstances] shares its
\* elements with instances, which sees the same ranks.
AssignRanks ==
    /\ pc = "assign"
    /\ selected' = assignRanks(selected)
    /\ instances' = [i \in DOMAIN instances |->
                        IF i \in DOMAIN selected THEN assignRanks(selected)[i]
                        ELSE instances[i]]
    /\ pc' = "exec"
    /\ UNCHANGED <<listing, numInstances, tpc, tres, wg, mu, errorsOccurred,
                   commandIDs, sends, inv, queried, lastResp, throttles, execErr,
                   stdout, exitCode>>

-----------------------------------------------------------------------------
(* executeProgram *)

\* The SSM client cannot be created: executeProgram returns at once.
ExecClientFail ==
    /\ pc = "exec"
    /\ execErr' = "client"
    /\ pc' = "returned"
    /\ UNCHANGED <<listing, numInstances, instances, selected, tpc, tres, wg, mu,
                   errorsOccurred, commandIDs, sends, inv, queried, lastResp,
                   throttles, stdout, exitCode>>

\* Variant: the loop stops one instance short.
Spawned_OneShort(insts) == DOMAIN insts \ {Len(insts)}

\* The instances a goroutine is started for.
Spawned(insts) == DOMAIN insts

\* for _, instance := range instances { wg.Add(1); go func(instance) {...}(instance) }
Spawn ==
    /\ pc = "exec"
    /\ tpc' = [i \in Fleet |-> IF i \in Spawned(selected) THEN "send" ELSE "idle"]
    /\ tres' = [i \in Fleet |-> "none"]
    /\ wg' = Cardinality(Spawned(selected))
    /\ pc' = "wait"
    /\ UNCHANGED <<listing, numInstances, instances, selected, mu, errorsOccurred,
                   commandIDs, sends, inv, queried, lastResp, throttles, execErr,
                   stdout, exitCode>>

\* A goroutine is about to call SendCommand.
MayAttempt(i) == tpc[i] = "send"

\* The goroutine of fleet member i composes its environment and calls
\* SendCommand, which the service accepts or rejects.
TaskSend(i, ok) ==
    /\ MayAttempt(i)
    /\ LET instance == selected[i]
           id == instance.InstanceID
       IN /\ sends' = [sends EXCEPT ![id] = Append(@, ComposeEnv(selected, instance))]
          /\ IF ok
             THEN /\ inv' = [inv EXCEPT ![id] = "Pending"]
                  /\ tres' = [tres EXCEPT ![i] = "ok"]
                  /\ UNCHANGED stdout
             ELSE /\ tres' = [tres EXCEPT ![i] = "fail"]
                  /\ stdout' = stdout \cup {<<"Failed to execute program on instance", id>>}
                  /\ UNCHANGED inv
    /\ tpc' = [tpc EXCEPT ![i] = "lock"]
    /\ UNCHANGED <<listing, numInstances, pc, instances, selected, wg, mu,
                   errorsOccurred, commandIDs, queried, lastResp, throttles, execErr,
                   exitCode>>

\* Variant: the critical section is entered without taking the mutex.
CanLock_Always(i) == TRUE

\* mu.Lock() goes through only while no goroutine holds the mutex.
CanLock(i) == mu = 0

\* mu.Lock()
TaskLock(i) ==
    /\ tpc[i] = "lock"
    /\ CanLock(i)
    /\ mu' = i
    /\ tpc' = [tpc EXCEPT ![i] = "store"]
    /\ UNCHANGED <<listing, numInstances, pc, instances, selected, tres, wg,
                   errorsOccurred, commandIDs, sends, inv, queried, lastResp,
                   throttles, execErr, stdout, exitCode>>

\* The update made under the mutex: errorsOccurred = true after a failed
\* SendCommand, commandIDs[instance.InstanceID] = commandID after an accepted one.
TaskStore(i) ==
    /\ tpc[i] = "store"
    /\ LET id == selected[i].InstanceID
       IN IF tres[i] = "fail"
          THEN /\ errorsOccurred' = TRUE
               /\ UNCHANGED commandIDs
          ELSE /\ commandIDs' = StoreHandle(commandIDs, id, CommandIdFor(id))
               /\ UNCHANGED errorsOccurred
    /\ tpc' = [tpc EXCEPT ![i] = "unlock"]
    /\ UNCHANGED <<listing, numInstances, pc, instances, selected, tres, wg, mu,
                   sends, inv, queried, lastResp, throttles, execErr, stdout, exitCode>>

\* mu.Unlock(), return, and the deferred wg.Done()
TaskUnlock(i) ==
    /\ tpc[i] = "unlock"
    /\ mu' = 0
    /\ wg' = wg - 1
    /\ tpc' = [tpc EXCEPT ![i] = "done"]
    /\ UNCHANGED <<listing, numInstances, pc, instances, selected, tres,
                   errorsOccurred, commandIDs, sends, inv, queried, lastResp,
                   throttles, execErr, stdout, exitCode>>

\* Variant: no barrier, the caller goes on at once.
WaitReturns_NoBarrier == TRUE

\* wg.Wait() returns once the counter is zero.
WaitReturns == wg = 0

\* Variant: the flag is not looked at after the barrier.
DispatchFailed_Ignored == FALSE

\* if errorsOccurred { return fmt.Errorf(...) }
DispatchFailed == errorsOccurred

\* The instance the loop after the barrier polls: the one with rank 0.
Leaders == {i \in Fleet : selected[i].InstanceRank = 0}

\* wg.Wait(); if errorsOccurred { return error }; then the loop looking for rank 0
\* (with an empty fleet the loop body never runs and executeProgram returns nil).
Wait ==
    /\ pc = "wait"
    /\ WaitReturns
    /\ IF DispatchFailed
       THEN /\ execErr' = "dispatch"
            /\ pc' = "returned"
       ELSE IF Leaders = {}
       THEN /\ execErr' = "nil"
            /\ pc' = "returned"
       ELSE /\ pc' = "poll"
            /\ UNCHANGED execErr
    /\ UNCHANGED <<listing, numInstances, instances, selected, tpc, tres, wg, mu,
                   errorsOccurred, commandIDs, sends, inv, queried, lastResp,
                   throttles, stdout, exitCode>>

-----------------------------------------------------------------------------
(* The SSM side of an invocation *)

\* An accepted invocation starts to run, then ends in a terminal status.
Progress(id) ==
    /\ inv[id] \in NonTerminal
    /\ \/ /\ inv[id] = "Pending"
          /\ inv' = [inv EXCEPT ![id] = "InProgress"]
       \/ /\ inv[id] = "InProgress"
          /\ \E t \in Terminal : inv' = [inv EXCEPT ![id] = t]
    /\ UNCHANGED <<listing, numInstances, pc, instances, selected, tpc, tres, wg, mu,
                   errorsOccurred, commandIDs, sends, queried, lastResp, throttles,
                   execErr, stdout, exitCode>>

\* What GetCommandInvocation(commandID, id) may answer: an error (throttling
\* or not) at any time, else the status of that invocation if it exists.
Answers(commandID, id) ==
    {"QueryError"}
    \cup (IF throttles < MaxThrottle THEN {"ThrottlingException"} ELSE {})
    \cup (IF commandID = CommandIdFor(id) /\ inv[id] # "None" THEN {inv[id]} ELSE {})

-----------------------------------------------------------------------------
(* getCommandOutput: what one answer does to the polling loop *)

\* Variant: a throttling error is treated like any other query error.
IsThrottling_Never(resp) == FALSE

IsThrottling(resp) == resp = "ThrottlingException"

\* Variant: only InProgress is retried, a Pending answer ends the loop.
PollVerdict_PendingEnds(resp) ==
    IF resp = "ThrottlingException" \/ resp = "InProgress" THEN "retry"
    ELSE IF resp = "Success" THEN "output"
    ELSE "error"

PollVerdict(resp) ==
    IF resp \in {"ThrottlingException", "QueryError"}
    THEN (IF IsThrottling(resp) THEN "retry" ELSE "error")
    ELSE IF resp = "InProgress" \/ resp = "Pending" THEN "retry"
    ELSE IF resp = "Success" THEN "output"
    ELSE "error"

\* The instance executeProgram polls: the first one with rank 0.
Leader == CHOOSE i \in Leaders : \A j \in Leaders : i <= j

\* One iteration of the loop in getCommandOutput, called for the rank 0
\* instance with commandIDs[instance.InstanceID]; on Success executeProgram
\* prints the output and returns nil, on an error it returns the error.
Poll(resp) ==
    /\ pc = "poll"
    /\ LET id == selected[Leader].InstanceID
       IN /\ resp \in Answers(Lookup(id), id)
          /\ queried' = queried \cup {id}
          /\ lastResp' = resp
          /\ throttles' = IF resp = "ThrottlingException" THEN throttles + 1 ELSE throttles
          /\ CASE PollVerdict(resp) = "retry" ->
                    UNCHANGED <<pc, execErr, stdout>>
               [] PollVerdict(resp) = "output" ->
                    /\ stdout' = stdout \cup {<<"Output from rank 0:", 0>>, StandardOutput(id)}
                    /\ execErr' = "nil"
                    /\ pc' = "returned"
               [] OTHER ->
                    /\ execErr' = "poll"
                    /\ pc' = "returned"
                    /\ UNCHANGED stdout
    /\ UNCHANGED <<listing, numInstances, instances, selected, tpc, tres, wg, mu,
                   errorsOccurred, commandIDs, sends, inv, exitCode>>

\* runAWSMPIRun, after executeProgram returned.
Finish ==
    /\ pc = "returned"
    /\ IF execErr # "nil"
       THEN /\ stdout' = stdout \cup {<<"Error executing program", 0>>}
            /\ Exit(1)
       ELSE /\ stdout' = stdout \cup {<<"Program executed successfully on all instances.", 0>>}
            /\ Exit(0)
    /\ UNCHANGED <<listing, numInstances, instances, selected, tpc, tres, wg, mu,
                   errorsOccurred, commandIDs, sends, inv, queried, lastResp,
                   throttles, execErr>>

\* The error executeProgram returns, as the texts it is made of: a fixed
\* message after a rejected submission; "rank 0" and the cause getCommandOutput
\* gives (the query error, or the status and the standard error) after polling.
ReportedError(err) ==
    IF err = "dispatch" THEN {<<"errors occurred during program execution", NoId>>}
    ELSE IF err = "poll" THEN {<<"failed to get output from rank 0", NoId>>, <<lastResp, NoId>>}
    ELSE IF err = "client" THEN {<<"failed to create SSM client", NoId>>}
    ELSE {}

\* The instance ids the returned error names.
NamedIds(err) == {id \in NodeIds : \E t \in ReportedError(err) : t[2] = id}

-----------------------------------------------------------------------------
Responses == {"ThrottlingException", "QueryError"} \cup NonTerminal \cup Terminal

Next ==
    \/ DiscoverOk
    \/ DiscoverFail
    \/ Select
    \/ AssignRanks
    \/ ExecClientFail
    \/ Spawn
    \/ \E i \in Tasks : \E ok \in BOOLEAN : TaskSend(i, ok)
    \/ \E i \in Tasks : TaskLock(i)
    \/ \E i \in Tasks : TaskStore(i)
    \/ \E i \in Tasks : TaskUnlock(i)
    \/ Wait
    \/ \E id \in NodeIds : Progress(id)
    \/ \E resp \in Responses : Poll(resp)
    \/ Finish

Spec == Init /\ [][Next]_vars

\* The steps of dispatch goroutine i, and the status answers of the service.
TaskStep(i) ==
    /\ i \in Tasks
    /\ \/ \E ok \in BOOLEAN : TaskSend(i, ok)
       \/ TaskLock(i)
       \/ TaskStore(i)
       \/ TaskUnlock(i)

PollStatus == \E resp \in NonTerminal \cup Terminal : Poll(resp)

\* A step of the caller or of a dispatch goroutine, and a step of the service.
GoroutineStep == Spawn \/ ExecClientFail \/ Wait \/ \E i \in Tasks : TaskStep(i)
ServiceStep == \E id \in NodeIds : Progress(id)

\* Fair scheduling: the goroutines keep running (each SendCommand returns),
\* the accepted invocations keep advancing to a terminal status, and the
\* service eventually answers a status query with the status (its throttling
\* answers are bounded by MaxThrottle).
\* The order EC2 lists the instances in plays no part in termination: the
\* fair specification starts from the listings in ascending id order.
FairInit ==
    /\ Init
    /\ \A j, k \in DOMAIN listing : j < k => listing[j].InstanceId < listing[k].InstanceId

FairSpec ==
    /\ FairInit
    /\ [][Next]_vars
    /\ WF_vars(GoroutineStep)
    /\ WF_vars(ServiceStep)
    /\ WF_vars(PollStatus)

-----------------------------------------------------------------------------
(* Vocabulary of the properties *)

IdOf(i) == selected[i].InstanceID

\* SendCommand to the instance was accepted / rejected.
Accepted(i) == tres[i] = "ok"
Rejected(i) == tres[i] = "fail"

\* executeProgram has returned.
Returned == execErr # "running"

\* wg.Wait() has returned in executeProgram.
BarrierPassed == pc \in {"poll", "returned", "exit"} /\ execErr # "client" /\ Tasks = Fleet

\* assignRanks has run on the selected fleet.
RanksAssigned == pc \in {"exec", "wait", "poll", "returned"} \/ (pc = "exit" /\ Returned)

\* Every accepted invocation of the fleet has reached its final status.
AllFinal == \A i \in Fleet : inv[IdOf(i)] \notin NonTerminal

\* The status query on the instance ended in a non-throttling query error.
QueryFailed(i) == IdOf(i) \in queried /\ execErr = "poll" /\ lastResp = "QueryError"

\* The per-node outcome Success: submitted, invocation Success, no query error.
NodeSucceeded(i) ==
    /\ Tasks = Fleet
    /\ Accepted(i)
    /\ inv[IdOf(i)] = "Success"
    /\ ~QueryFailed(i)

\* The leader's standard output was printed.
LeaderOutputSurfaced == \E i \in Leaders : StandardOutput(IdOf(i)) \in stdout

\* A status query observed the instance in a terminal outcome.
ObservedTerminal(i) ==
    /\ IdOf(i) \in queried
    /\ lastResp # "none"
    /\ PollVerdict(lastResp) # "retry"

-----------------------------------------------------------------------------
\* C1: for a fleet of N >= 1, executeProgram returns no error if and only if
\* every node was submitted successfully and reached terminal status Success
\* (judged once every accepted invocation has its final status).
C1_SuccessIffAllNodesSucceeded ==
    (Returned /\ Fleet # {} /\ AllFinal)
        => (execErr = "nil" <=> \A i \in Fleet : NodeSucceeded(i))

\* C2: whatever the other nodes do, the leader's standard output is surfaced
\* if and only if the leader was submitted and its invocation reached Success.
C2_LeaderOutputIffLeaderSucceeded ==
    (Returned /\ Fleet # {} /\ AllFinal)
        => (LeaderOutputSurfaced <=> \E i \in Leaders : NodeSucceeded(i))

\* C3: when executeProgram returns, every node with an entry in commandIDs has
\* been observed by a status query in a terminal outcome.
C3_EveryHandlePolled ==
    Returned => \A i \in Fleet : HasHandle(IdOf(i)) => ObservedTerminal(i)

\* C4: a throttling error never ends the polling loop (after it the loop is
\* still running, whatever the number of throttling errors so far); the loop
\* ends in failure only after a non-throttling query error or a terminal
\* non-success status, and in success only after a Success status.
C4_ThrottlingNeverFails ==
    /\ lastResp = "ThrottlingException" => (pc = "poll" /\ execErr = "running")
    /\ execErr = "poll" => lastResp \in {"QueryError"} \cup (Terminal \ {"Success"})
    /\ LeaderOutputSurfaced => lastResp = "Success"
    /\ (execErr = "nil" /\ Fleet # {}) => lastResp = "Success"

\* C4 witness: the loop returned the output after MaxThrottle throttling errors.
C4_Witness == throttles = MaxThrottle /\ execErr = "nil" /\ LeaderOutputSurfaced

\* C5: no instance is ever submitted to twice, instances outside the fleet
\* are never submitted to, and once all dispatch goroutines have finished each
\* fleet member has received exactly one SendCommand, failures included.
C5_ExactlyOneAttempt ==
    /\ \A id \in NodeIds : Len(sends[id]) <= 1
    /\ \A id \in NodeIds : (\A i \in Fleet : IdOf(i) # id) => sends[id] = <<>>
    /\ BarrierPassed => \A i \in Fleet : Len(sends[IdOf(i)]) = 1

\* C5 witness: one submission was rejected, a sibling's was accepted, and the
\* barrier has been passed.
C5_Witness ==
    /\ BarrierPassed
    /\ \E i, j \in Fleet : Rejected(i) /\ Accepted(j)

C7_SiblingsStillPolled ==
    (Returned /\ BarrierPassed /\ \E j \in Fleet : Rejected(j))
        => \A i \in Fleet : Accepted(i) => ObservedTerminal(i)

\* C8: no status query is issued before every dispatch goroutine has
\* completed its submission attempt, and executeProgram returns only when the
\* polling loop has ended (its last answer was not one that is retried).
C8_DispatchBarrier ==
    /\ (queried # {} \/ pc = "poll") => (Tasks = Fleet /\ \A i \in Tasks : tpc[i] = "done")
    /\ (Returned /\ queried # {}) => PollVerdict(lastResp) # "retry"
    /\ (execErr \in {"nil", "poll"} /\ Fleet # {}) => queried # {}

\* C8 witness: a fleet of two, both attempts completed, the leader queried.
C8_Witness ==
    /\ Cardinality(Fleet) >= 2
    /\ queried # {}
    /\ Returned

\* C9: for N >= 1 the fleet is the first N candidates, the i-th of them has
\* rank i (from 0), the ranks are exactly 0..N-1 and exactly one node is the
\* rank 0 leader.
C9_RanksArePositions ==
    (RanksAssigned /\ numInstances >= 1) =>
        /\ Len(selected) = numInstances
        /\ \A i \in Fleet : /\ selected[i].InstanceRank = i - 1
                            /\ selected[i].InstanceID = instances[i].InstanceID
        /\ {selected[i].InstanceRank : i \in Fleet} = 0..(numInstances - 1)
        /\ \A i, j \in Fleet : selected[i].InstanceRank = selected[j].InstanceRank => i = j
        /\ Cardinality(Leaders) = 1

\* C9 witness: ranks assigned to a fleet of two taken from a longer list.
C9_Witness ==
    /\ RanksAssigned
    /\ numInstances = 2
    /\ Len(instances) >= 2
    /\ Len(listing) > 2

\* C10: every environment sent to a node has MPI_SIZE = N and exactly N
\* address entries, one per rank 0..N-1; the node's own rank is MPI_RANK and
\* its entry, and no other, is the wildcard address.
C10_AddressTableComplete ==
    \A i \in Fleet : \A k \in DOMAIN sends[IdOf(i)] :
        LET env == sends[IdOf(i)][k]
            N == Len(selected)
        IN /\ env.MPI_SIZE = N
           /\ env.MPI_RANK = selected[i].InstanceRank
           /\ Len(env.MPI_ADDRESS) = N
           /\ {env.MPI_ADDRESS[x].rank : x \in DOMAIN env.MPI_ADDRESS} = 0..(N - 1)
           /\ \A x \in DOMAIN env.MPI_ADDRESS :
                env.MPI_ADDRESS[x].address = Wildcard <=> env.MPI_ADDRESS[x].rank = env.MPI_RANK

\* C10 witness: both nodes of a fleet of two were sent their environment, and
\* one of them has a private and a public address on record.
C10_Witness ==
    /\ Cardinality(Fleet) = 2
    /\ \A i \in Fleet : sends[IdOf(i)] # <<>>
    /\ \E i \in Fleet : selected[i].PublicIP # EmptyStr /\ selected[i].PrivateIP # EmptyStr

-----------------------------------------------------------------------------
(* Discovery and pre-flight *)

DiscoveryFailed == <<"Error discovering instances", 0>> \in stdout
Discovered == pc # "discover" /\ ~DiscoveryFailed
CapacityFailed == <<"Not enough instances in the VPC", 0>> \in stdout

Candidates == {instances[k].InstanceID : k \in DOMAIN instances}

\* No command was submitted, no status asked for, no goroutine started.
NoDispatch ==
    /\ \A id \in NodeIds : sends[id] = <<>> /\ inv[id] = "None"
    /\ queried = {}
    /\ Tasks = {}
    /\ commandIDs = {}

\* C11: in every environment sent, the entry of a non-local node is its
\* private address when it has one and its public address otherwise; and a
\* listed node without a private address but with a public one is still a
\* candidate.
C11_PrivateElsePublic ==
    /\ \A i \in Fleet : \A k \in DOMAIN sends[IdOf(i)] :
         LET env == sends[IdOf(i)][k]
         IN \A x \in DOMAIN env.MPI_ADDRESS :
              x # i => env.MPI_ADDRESS[x].address =
                         (IF selected[x].PrivateIP # EmptyStr THEN selected[x].PrivateIP
                          ELSE selected[x].PublicIP)
    /\ Discovered =>
         \A k \in DOMAIN listing :
            (listing[k].PrivateIpAddress = Nil /\ listing[k].PublicIpAddress # Nil)
                => listing[k].InstanceId \in Candidates

\* C12: when discovery fails, or finds fewer instances than requested, the
\* run has ended with exit status 1 and nothing was dispatched: no
\* SendCommand, no status query, no goroutine.
C12_PreflightAborts ==
    /\ DiscoveryFailed => (pc = "exit" /\ exitCode = 1 /\ NoDispatch)
    /\ (Discovered /\ pc # "select" /\ Len(instances) < numInstances)
            => (pc = "exit" /\ exitCode = 1 /\ CapacityFailed /\ NoDispatch)
    /\ ~NoDispatch => (Discovered /\ Len(instances) >= numInstances)

\* C12 witness: discovery found some instances, but fewer than requested, and
\* the run has ended.
C12_Witness ==
    /\ pc = "exit"
    /\ Len(instances) >= 1
    /\ Len(instances) < numInstances

\* The nodes that did not reach Success as executeProgram saw them: rejected
\* submissions, and the node whose polling ended in failure.
FailedNodes ==
    {IdOf(i) : i \in {j \in Fleet : Tasks = Fleet /\ Rejected(j)}}
    \cup (IF execErr = "poll" THEN {IdOf(i) : i \in Leaders} ELSE {})

\* C13: when executeProgram fails, the ids named in the error it returns are
\* exactly the nodes whose dispatch failed or whose polling ended Failed.
C13_ErrorNamesFailedNodes ==
    (Returned /\ execErr \in {"dispatch", "poll"}) => NamedIds(execErr) = FailedNodes

\* C14: the ordered candidate list depends only on the set of running
\* instances: any other order in which EC2 may list the same instances gives
\* the same candidates in the same order (hence the same ranks).
C14_OrderIndependent ==
    Discovered =>
        \A other \in Listings :
            {other[k] : k \in DOMAIN other} = {listing[k] : k \in DOMAIN listing}
                => [k \in DOMAIN Collect(other) |-> Collect(other)[k].InstanceID]
                     = [k \in DOMAIN instances |-> instances[k].InstanceID]

-----------------------------------------------------------------------------
(* Termination, locking, frame *)

\* The polled leader's invocation is still Pending or InProgress.
PolledStillRunning ==
    \E i \in Leaders : IdOf(i) \in queried /\ inv[IdOf(i)] \in NonTerminal

\* C15 as stated, its last part: while the polled node's invocation stays
\* Pending/InProgress, executeProgram does not return.
C15_NoReturnWhileRunning == PolledStillRunning => ~Returned

\* C15, amended: under fair scheduling executeProgram, once called, eventually
\* returns; and while the polled node's invocation is Pending/InProgress it
\* returns only because a status query failed with a non-throttling error.
C15_EventuallyReturns ==
    /\ (pc = "exec") ~> Returned
    /\ [](PolledStillRunning /\ Returned => execErr = "poll" /\ lastResp = "QueryError")

\* C15 witness: the run returned on a query error while the leader's
\* invocation was still running.
C15_Witness ==
    /\ PolledStillRunning
    /\ Returned
    /\ lastResp = "QueryError"

\* The goroutines inside the update guarded by mu.
InCritical == {i \in Tasks : tpc[i] \in {"store", "unlock"}}

AllTasksDone == Tasks = Fleet /\ \A i \in Tasks : tpc[i] = "done"

\* C16: at most one goroutine is inside the guarded update and it holds mu;
\* commandIDs and errorsOccurred change only in a step of the goroutine
\* holding mu; the caller leaves wg.Wait (and then reads errorsOccurred and
\* commandIDs) only when every goroutine has finished.
C16_MutexDiscipline ==
    /\ [](Cardinality(InCritical) <= 1 /\ \A i \in InCritical : mu = i)
    /\ [][(commandIDs' # commandIDs \/ errorsOccurred' # errorsOccurred)
            => (mu \in Tasks /\ tpc[mu] = "store" /\ tpc'[mu] = "unlock" /\ mu' = mu)]_vars
    /\ [][(pc = "wait" /\ pc' # "wait") => (AllTasksDone /\ mu = 0)]_vars
    /\ [](pc = "poll" => (AllTasksDone /\ mu = 0))

\* C16 witness: one goroutine is inside the update while another waits for mu.
C16_Witness ==
    \E i, j \in Tasks : i # j /\ tpc[i] = "store" /\ mu = i /\ tpc[j] = "lock"

\* C17: the selected records have rank -1 until assignRanks, their final rank
\* right after it, and no later step changes a record's id, addresses or rank.
C17_RecordsReadOnly ==
    /\ [](pc = "assign" => \A i \in Fleet : selected[i].InstanceRank = Unassigned)
    /\ [](RanksAssigned => \A i \in Fleet : /\ selected[i].InstanceRank = i - 1
                                            /\ selected[i].InstanceRank # Unassigned)
    /\ [][pc = "assign" =>
            /\ DOMAIN selected' = DOMAIN selected
            /\ \A i \in Fleet : selected' [i] = [selected[i] EXCEPT !.InstanceRank = i - 1]]_vars
    /\ [][pc \notin {"select", "assign"} => selected' = selected]_vars

\* C17 witness: a fleet of two was dispatched and polled, and the run returned.
C17_Witness ==
    /\ Cardinality(Fleet) = 2
    /\ pc = "exit"
    /\ Returned
    /\ queried # {}

-----------------------------------------------------------------------------
(***************************************************************************)
(* aws/deployment_manager.go: InitializeEnviromentsAndBuild.  One goroutine *)
(* per instance composes the environment, calls SendCommand and then polls  *)
(* its own invocation; the caller waits for all of them.  The variables are *)
(* the function's own instances, wg, mu and errorsOccurred, the goroutines' *)
(* positions, and the same SSM service; lastResp holds, per goroutine, the  *)
(* last answer to its status query.                                         *)
(***************************************************************************)

\* The instances GetInstanceIPandIDs can return: those with a private address.
\* The function treats its argument by position only, so the fleets are
\* taken in ascending id order; a position still differs from the id it holds.
Addressable == {id \in NodeIds : PrivateIpAddress(id) # Nil}

BuildInstances ==
    {[k \in DOMAIN s |-> [InstanceID |-> s[k],
                          PrivateIP |-> PrivateIpAddress(s[k]),
                          InstanceRank |-> 0]]
        : s \in {t \in InjectiveSeqs(Addressable) :
                    /\ Len(t) <= MaxRequested
                    /\ \A j, k \in DOMAIN t : j < k => t[j] < t[k]}}

BuildInit ==
    /\ selected \in BuildInstances
    /\ listing = <<>>
    /\ numInstances = 0
    /\ instances = <<>>
    /\ pc = "build"
    /\ tpc = <<>>
    /\ tres = <<>>
    /\ wg = 0
    /\ mu = 0
    /\ errorsOccurred = FALSE
    /\ commandIDs = {}
    /\ sends = [id \in NodeIds |-> <<>>]
    /\ inv = [id \in NodeIds |-> "None"]
    /\ queried = {}
    /\ lastResp = <<>>
    /\ throttles = 0
    /\ execErr = "running"
    /\ stdout = {}
    /\ exitCode = -1

\* The environment goroutine i composes (i counts from 1 here, from 0 in Go).
BuildEnv(insts, i) ==
    [MPI_SIZE |-> Len(insts),
     MPI_RANK |-> i - 1,
     MPI_ADDRESS |-> [x \in DOMAIN insts |->
                        [rank |-> x - 1,
                         address |-> IF x = i THEN Wildcard ELSE insts[x].PrivateIP]]]

\* for i := 0; i < n; i++ { wg.Add(1); go func(i int) {...}(i) }
BuildSpawn ==
    /\ pc = "build"
    /\ tpc' = [i \in Fleet |-> "send"]
    /\ tres' = [i \in Fleet |-> "none"]
    /\ lastResp' = [i \in Fleet |-> "none"]
    /\ wg' = Len(selected)
    /\ pc' = "wait"
    /\ UNCHANGED <<listing, numInstances, instances, selected, mu, errorsOccurred,
                   commandIDs, sends, inv, queried, throttles, execErr, stdout, exitCode>>

\* Goroutine i composes its environment (writing its own InstanceRank), prints
\* the script and calls SendCommand; a rejected call is printed and leads to
\* the guarded errorsOccurred = true, an accepted one to the polling loop.
BuildSend(i, ok) ==
    /\ tpc[i] = "send"
    /\ LET id == selected[i].InstanceID
       IN /\ selected' = [selected EXCEPT ![i].InstanceRank = i - 1]
          /\ sends' = [sends EXCEPT ![id] = Append(@, BuildEnv(selected, i))]
          /\ IF ok
             THEN /\ inv' = [inv EXCEPT ![id] = "Pending"]
                  /\ tres' = [tres EXCEPT ![i] = "ok"]
                  /\ stdout' = stdout \cup {<<"finalScript", id>>,
                                            <<"SSM Command Result for instance", id>>}
                  /\ tpc' = [tpc EXCEPT ![i] = "poll"]
             ELSE /\ tres' = [tres EXCEPT ![i] = "fail"]
                  /\ stdout' = stdout \cup {<<"finalScript", id>>,
                                            <<"Failed to send command to instance", id>>}
                  /\ tpc' = [tpc EXCEPT ![i] = "lock"]
                  /\ UNCHANGED inv
    /\ UNCHANGED <<listing, numInstances, pc, instances, wg, mu, errorsOccurred,
                   commandIDs, queried, lastResp, throttles, execErr, exitCode>>

\* mu.Lock()
BuildLock(i) ==
    /\ tpc[i] = "lock"
    /\ mu = 0
    /\ mu' = i
    /\ tpc' = [tpc EXCEPT ![i] = "store"]
    /\ UNCHANGED <<listing, numInstances, pc, instances, selected, tres, wg,
                   errorsOccurred, commandIDs, sends, inv, queried, lastResp,
                   throttles, execErr, stdout, exitCode>>

\* errorsOccurred = true
BuildStore(i) ==
    /\ tpc[i] = "store"
    /\ errorsOccurred' = TRUE
    /\ tpc' = [tpc EXCEPT ![i] = "unlock"]
    /\ UNCHANGED <<listing, numInstances, pc, instances, selected, tres, wg, mu,
                   commandIDs, sends, inv, queried, lastResp, throttles, execErr,
                   stdout, exitCode>>

\* mu.Unlock(), return, and the deferred wg.Done()
BuildUnlock(i) ==
    /\ tpc[i] = "unlock"
    /\ mu' = 0
    /\ wg' = wg - 1
    /\ tpc' = [tpc EXCEPT ![i] = "done"]
    /\ UNCHANGED <<listing, numInstances, pc, instances, selected, tres,
                   errorsOccurred, commandIDs, sends, inv, queried, lastResp,
                   throttles, execErr, stdout, exitCode>>

\* Variant: the invocations are polled one after the other, in index order.
MayPoll_InOrder(i) == tpc[i] = "poll" /\ \A j \in Tasks : j < i => tpc[j] = "done"

\* Goroutine i is in its polling loop.
MayPoll(i) == tpc[i] = "poll"

\* What an answer does to the loop: any error ends it as a failure, a status
\* other than InProgress and Pending ends it, anything else is retried.
BuildVerdict(resp) ==
    IF resp \in {"ThrottlingException", "QueryError"} THEN "error"
    ELSE IF resp # "InProgress" /\ resp # "Pending" THEN "break"
    ELSE "retry"

\* One iteration of goroutine i's polling loop.
BuildPoll(i, resp) ==
    /\ MayPoll(i)
    /\ LET id == selected[i].InstanceID
       IN /\ resp \in Answers(CommandIdFor(id), id)
          /\ queried' = queried \cup {id}
          /\ lastResp' = [lastResp EXCEPT ![i] = resp]
          /\ throttles' = IF resp = "ThrottlingException" THEN throttles + 1 ELSE throttles
          /\ CASE BuildVerdict(resp) = "error" ->
                    /\ stdout' = stdout \cup {<<"Failed to get command invocation for instance", id>>}
                    /\ tpc' = [tpc EXCEPT ![i] = "lock"]
                    /\ UNCHANGED wg
               [] BuildVerdict(resp) = "break" ->
                    /\ stdout' = stdout \cup {<<"Command Invocation Status for instance", id>>,
                                              <<resp, id>>}
                    /\ tpc' = [tpc EXCEPT ![i] = "done"]
                    /\ wg' = wg - 1
               [] OTHER ->
                    UNCHANGED <<stdout, tpc, wg>>
    /\ UNCHANGED <<listing, numInstances, pc, instances, selected, tres, mu,
                   errorsOccurred, commandIDs, sends, inv, execErr, exitCode>>

\* wg.Wait(); return the error if errorsOccurred, else nil.
BuildWait ==
    /\ pc = "wait"
    /\ wg = 0
    /\ execErr' = IF errorsOccurred THEN "error" ELSE "nil"
    /\ pc' = "returned"
    /\ UNCHANGED <<listing, numInstances, instances, selected, tpc, tres, wg, mu,
                   errorsOccurred, commandIDs, sends, inv, queried, lastResp,
                   throttles, stdout, exitCode>>

BuildNext ==
    \/ BuildSpawn
    \/ \E i \in Tasks : \E ok \in BOOLEAN : BuildSend(i, ok)
    \/ \E i \in Tasks : BuildLock(i)
    \/ \E i \in Tasks : BuildStore(i)
    \/ \E i \in Tasks : BuildUnlock(i)
    \/ \E i \in Tasks : \E resp \in Responses : BuildPoll(i, resp)
    \/ \E id \in NodeIds : Progress(id)
    \/ BuildWait

BuildSpec == BuildInit /\ [][BuildNext]_vars

-----------------------------------------------------------------------------
(* Properties of InitializeEnviromentsAndBuild *)

\* How goroutine i ended: its submission was rejected, a status query
\* returned an error, or a query reported a status that ends the loop.
EndedByDispatch(i) == Rejected(i)
EndedByQuery(i) == Accepted(i) /\ lastResp[i] \in {"ThrottlingException", "QueryError"}
EndedByStatus(i) == Accepted(i) /\ lastResp[i] \in Terminal
WorkerEnded(i) ==
    tpc[i] = "done" /\ (EndedByDispatch(i) \/ EndedByQuery(i) \/ EndedByStatus(i))

\* C18: every goroutine polls its own invocation independently of the others.
\* Whatever the other goroutines are doing (still polling a Pending or
\* InProgress invocation, rejected, failed, holding the mutex), a goroutine in
\* its polling loop can take its next status query, and once its invocation
\* is terminal that query ends its loop with that status; the function
\* returns only after every goroutine has ended by a dispatch failure, a
\* query failure or a terminal status.
C18_IndependentPolling ==
    /\ \A j \in Tasks :
          tpc[j] = "poll" =>
             /\ ENABLED BuildPoll(j, inv[IdOf(j)])
             /\ inv[IdOf(j)] \in NonTerminal \cup Terminal
    /\ Returned => Tasks = Fleet /\ \A i \in Fleet : WorkerEnded(i)

\* An earlier goroutine is still polling a running invocation, or has failed,
\* while a later one has been polled to a terminal status.
C18_Witness ==
    \E i, j \in Tasks :
        /\ i < j
        /\ \/ tpc[i] = "poll" /\ inv[IdOf(i)] \in NonTerminal /\ IdOf(i) \in queried
           \/ Rejected(i)
        /\ tpc[j] = "done"
        /\ EndedByStatus(j)

\* C19: a throttling error from the status query is retried and is never
\* surfaced as a failure on its own: a goroutine whose last answer was a
\* throttling error is still in its polling loop, and the function returns an
\* error only if some submission was rejected or some query failed with an
\* error other than throttling.
C19_ThrottlingRetried ==
    /\ \A i \in Tasks : lastResp[i] = "ThrottlingException" => MayPoll(i)
    /\ execErr = "error" =>
          \E i \in Fleet : Rejected(i) \/ (Accepted(i) /\ lastResp[i] = "QueryError")

\* C20: the function returns an error if and only if some node did not reach
\* Success (rejected submission, failed query, or terminal status other than
\* Success).
C20_ErrorIffSomeNodeNotSuccess ==
    Returned =>
        (execErr = "error" <=>
            \E i \in Fleet : ~(Accepted(i) /\ lastResp[i] = "Success"))

-----------------------------------------------------------------------------
(* Properties of executeProgram and runAWSMPIRun (the --exec variant), continued *)

\* C22: whenever executeProgram polls the leader, commandIDs holds the command
\* id of every selected instance, the leader's included: the polling loop is
\* reached only when no goroutine reported a failure, so the leader is never
\* polled with a missing (empty) command id.
C22_LeaderHandlePresent ==
    pc = "poll" =>
        /\ ~errorsOccurred
        /\ \A i \in Fleet :
              /\ Accepted(i)
              /\ HasHandle(IdOf(i))
              /\ Lookup(IdOf(i)) = CommandIdFor(IdOf(i))
        /\ Lookup(selected[Leader].InstanceID) # NoCommand

\* The leader of a fleet of two is being polled.
C22_Witness ==
    /\ pc = "poll"
    /\ Len(selected) = MaxRequested
    /\ selected[Leader].InstanceID \in queried

\* What a run with an empty selection does up to the return of
\* executeProgram: nothing is refused, submitted, queried or printed as output.
ZeroFleetIdle ==
    /\ ~CapacityFailed
    /\ selected = <<>>
    /\ NoDispatch
    /\ ~LeaderOutputSurfaced
    /\ <<"Output from rank 0:", 0>> \notin stdout

SuccessReported ==
    /\ exitCode = 0
    /\ <<"Program executed successfully on all instances.", 0>> \in stdout

\* C23 as stated: the requested size is not checked to be positive.  With a
\* requested size of 0 and a successful discovery, the selection is empty,
\* nothing is submitted or queried, no leader output is printed, and the run
\* ends with the success message and exit status 0.
C23_ZeroFleetAlwaysSucceeds ==
    (numInstances = 0 /\ Discovered) =>
        /\ ZeroFleetIdle
        /\ execErr \in {"running", "nil"}
        /\ exitCode \in {-1, 0}
        /\ pc = "exit" => SuccessReported

\* C23: with a requested size of 0 and a successful discovery, the selection
\* is empty, nothing is submitted or queried, no leader output is printed,
\* and the run ends with the success message and exit status 0 unless
\* executeProgram could not create its SSM client, the only error such a run
\* can end with.
C23_ZeroFleetSucceeds ==
    (numInstances = 0 /\ Discovered) =>
        /\ ZeroFleetIdle
        /\ execErr \in {"running", "nil", "client"}
        /\ (pc = "exit" /\ execErr = "nil") => SuccessReported
        /\ (pc = "exit" /\ execErr # "nil") => execErr = "client" /\ exitCode = 1

\* A run with requested size 0 over a non-empty discovery has ended.
C23_Witness ==
    /\ numInstances = 0
    /\ Discovered
    /\ instances # <<>>
    /\ pc = "exit"
    /\ exitCode = 0

-----------------------------------------------------------------------------
(***************************************************************************)
(* cmd/root.go, the distribution variant of runAWSMPIRun: discovery and     *)
(* selection as above (root.go:27-38 is the text of part_001:60-71), then   *)
(* setupEnvironment, distributeProgram and executeProgram, each of which    *)
(* starts one goroutine per instance calling SendCommand and waits for all  *)
(* of them.  wg, mu and errorsOccurred are the locals of the function being *)
(* run; sends[id] is the log of the SendCommand calls for instance id, with *)
(* what the service answered.                                               *)
(***************************************************************************)

DistPhases == {"environment", "download", "execute"}

\* The script of a command that carries no environment.
NoEnv == [MPI_SIZE |-> 0, MPI_RANK |-> 0, MPI_ADDRESS |-> <<>>]

\* The environment goroutine i of InitializeEnvironments composes: every
\* address, its own included, is the instance's private address.
DistEnv(insts, i) ==
    [MPI_SIZE |-> Len(insts),
     MPI_RANK |-> i - 1,
     MPI_ADDRESS |-> [x \in DOMAIN insts |->
                        [rank |-> x - 1, address |-> insts[x].PrivateIP]]]

\* The line a goroutine prints when its SendCommand is rejected.
DistFailureLine(phase) ==
    IF phase = "execute" THEN "Failed to execute program on instance"
    ELSE "Failed to send command to instance"

\* The line runAWSMPIRun prints when a step returns an error.
DistErrorLine(phase) ==
    IF phase = "environment" THEN "Error setting up environment"
    ELSE IF phase = "download" THEN "Error distributing program"
    ELSE "Error executing program"

\* The run starts as above, from a listing in ascending id order.
DistInit == FairInit

\* for ... { wg.Add(1); go func(...) {...}(...) } with fresh wg, mu, errorsOccurred
DistStart(phase) ==
    /\ tpc' = [i \in Fleet |-> "send"]
    /\ tres' = [i \in Fleet |-> "none"]
    /\ wg' = Len(selected)
    /\ mu' = 0
    /\ errorsOccurred' = FALSE
    /\ pc' = phase

\* A step of runAWSMPIRun returned an error: print it and os.Exit(1).
DistAbort(phase, err) ==
    /\ execErr' = err
    /\ stdout' = stdout \cup {<<DistErrorLine(phase), 0>>}
    /\ Exit(1)

\* setupEnvironment: assign the ranks, create the SSM client, and start the
\* goroutines of InitializeEnvironments.
DistSetup(ok) ==
    /\ pc = "assign"
    /\ instances' = [i \in DOMAIN instances |->
                        IF i \in DOMAIN selected THEN assignRanks(selected)[i]
                        ELSE instances[i]]
    /\ selected' = assignRanks(selected)
    /\ IF ok
       THEN /\ DistStart("environment")
            /\ UNCHANGED <<execErr, stdout, exitCode>>
       ELSE /\ DistAbort("environment", "client")
            /\ UNCHANGED <<tpc, tres, wg, mu, errorsOccurred>>
    /\ UNCHANGED <<listing, numInstances, commandIDs, sends, inv, queried,
                   lastResp, throttles>>

\* distributeProgram up to its loop: S3 client, upload, SSM client.
DistUpload(outcome) ==
    /\ pc = "upload"
    /\ IF outcome = "ok"
       THEN /\ DistStart("download")
            /\ stdout' = stdout \cup {<<"Uploaded", 0>>}
            /\ UNCHANGED <<execErr, exitCode>>
       ELSE /\ execErr' = outcome
            /\ stdout' = stdout \cup {<<DistErrorLine("download"), 0>>}
                                \cup (IF outcome = "client" THEN {<<"Uploaded", 0>>} ELSE {})
            /\ Exit(1)
            /\ UNCHANGED <<tpc, tres, wg, mu, errorsOccurred>>
    /\ UNCHANGED <<listing, numInstances, instances, selected, commandIDs, sends,
                   inv, queried, lastResp, throttles>>

\* executeProgram up to its loop: SSM client.
DistExecute(ok) ==
    /\ pc = "client"
    /\ IF ok
       THEN /\ DistStart("execute")
            /\ UNCHANGED <<execErr, stdout, exitCode>>
       ELSE /\ DistAbort("execute", "client")
            /\ UNCHANGED <<tpc, tres, wg, mu, errorsOccurred>>
    /\ UNCHANGED <<listing, numInstances, instances, selected, commandIDs, sends,
                   inv, queried, lastResp, throttles>>

\* A goroutine of the running phase calls SendCommand for its instance.  An
\* accepted call ends the goroutine (wg.Done); a rejected one is printed and
\* leads to the guarded errorsOccurred = true.
DistSend(i, ok) ==
    /\ pc \in DistPhases
    /\ tpc[i] = "send"
    /\ LET id == selected[i].InstanceID
           script == IF pc = "environment" THEN DistEnv(selected, i) ELSE NoEnv
       IN /\ sends' = [sends EXCEPT ![id] =
                          Append(@, [kind |-> pc, env |-> script, accepted |-> ok])]
          /\ IF ok
             THEN /\ inv' = [inv EXCEPT ![id] = "Pending"]
                  /\ tres' = [tres EXCEPT ![i] = "ok"]
                  /\ tpc' = [tpc EXCEPT ![i] = "done"]
                  /\ wg' = wg - 1
                  /\ UNCHANGED stdout
             ELSE /\ tres' = [tres EXCEPT ![i] = "fail"]
                  /\ tpc' = [tpc EXCEPT ![i] = "lock"]
                  /\ stdout' = stdout \cup {<<DistFailureLine(pc), id>>}
                  /\ UNCHANGED <<inv, wg>>
    /\ UNCHANGED <<listing, numInstances, pc, instances, selected, mu,
                   errorsOccurred, commandIDs, queried, lastResp, throttles,
                   execErr, exitCode>>

\* mu.Lock()
DistLock(i) ==
    /\ pc \in DistPhases
    /\ tpc[i] = "lock"
    /\ mu = 0
    /\ mu' = i
    /\ tpc' = [tpc EXCEPT ![i] = "store"]
    /\ UNCHANGED <<listing, numInstances, pc, instances, selected, tres, wg,
                   errorsOccurred, commandIDs, sends, inv, queried, lastResp,
                   throttles, execErr, stdout, exitCode>>

\* errorsOccurred = true
DistStore(i) ==
    /\ pc \in DistPhases
    /\ tpc[i] = "store"
    /\ errorsOccurred' = TRUE
    /\ tpc' = [tpc EXCEPT ![i] = "unlock"]
    /\ UNCHANGED <<listing, numInstances, pc, instances, selected, tres, wg, mu,
                   commandIDs, sends, inv, queried, lastResp, throttles, execErr,
                   stdout, exitCode>>

\* mu.Unlock(), return, and the deferred wg.Done()
DistUnlock(i) ==
    /\ pc \in DistPhases
    /\ tpc[i] = "unlock"
    /\ mu' = 0
    /\ wg' = wg - 1
    /\ tpc' = [tpc EXCEPT ![i] = "done"]
    /\ UNCHANGED <<listing, numInstances, pc, instances, selected, tres,
                   errorsOccurred, commandIDs, sends, inv, queried, lastResp,
                   throttles, execErr, stdout, exitCode>>

\* Variant: the flag is not looked at, the function always returns nil.
PhaseFailed_Never(flag) == FALSE

\* if errorsOccurred { return fmt.Errorf(...) }
PhaseFailed(flag) == flag

\* wg.Wait() of the running phase, the function's return, and what
\* runAWSMPIRun does with the result: exit on an error, else the next step,
\* and after the last one the success line.
DistWait ==
    /\ pc \in DistPhases
    /\ wg = 0
    /\ IF PhaseFailed(errorsOccurred)
       THEN DistAbort(pc, "dispatch")
       ELSE IF pc = "environment"
       THEN /\ pc' = "upload"
            /\ UNCHANGED <<execErr, stdout, exitCode>>
       ELSE IF pc = "download"
       THEN /\ pc' = "client"
            /\ UNCHANGED <<execErr, stdout, exitCode>>
       ELSE /\ execErr' = "nil"
            /\ stdout' = stdout \cup {<<"Program executed successfully on all instances.", 0>>}
            /\ Exit(0)
    /\ UNCHANGED <<listing, numInstances, instances, selected, tpc, tres, wg, mu,
                   errorsOccurred, commandIDs, sends, inv, queried, lastResp,
                   throttles>>

DistNext ==
    \/ DiscoverOk
    \/ DiscoverFail
    \/ Select
    \/ \E ok \in BOOLEAN : DistSetup(ok)
    \/ \E outcome \in {"ok", "s3client", "upload", "client"} : DistUpload(outcome)
    \/ \E ok \in BOOLEAN : DistExecute(ok)
    \/ \E i \in Tasks : \E ok \in BOOLEAN : DistSend(i, ok)
    \/ \E i \in Tasks : DistLock(i)
    \/ \E i \in Tasks : DistStore(i)
    \/ \E i \in Tasks : DistUnlock(i)
    \/ DistWait
    \/ \E id \in NodeIds : Progress(id)

DistSpec == DistInit /\ [][DistNext]_vars

-----------------------------------------------------------------------------
(* Properties of the distribution variant *)

\* The SendCommand calls of one kind made for instance id.
SentTo(id, kind) == {k \in DOMAIN sends[id] : sends[id][k].kind = kind}
AnySent(kind) == \E id \in NodeIds : SentTo(id, kind) # {}
AcceptedAll(kind) ==
    \A i \in Fleet : \E k \in SentTo(IdOf(i), kind) : sends[IdOf(i)][k].accepted

PhaseOrder == <<"environment", "download", "execute">>

\* C21: the environment InitializeEnvironments composes for a node has one
\* address entry per node of the fleet, and the entry of the node being
\* configured is the wildcard address, not its own private address.
C21_LocalEntryIsWildcard ==
    \A i \in Fleet :
        \A k \in SentTo(IdOf(i), "environment") :
            LET env == sends[IdOf(i)][k].env
            IN /\ env.MPI_SIZE = Len(selected)
               /\ DOMAIN env.MPI_ADDRESS = Fleet
               /\ env.MPI_ADDRESS[i].address = Wildcard
               /\ env.MPI_ADDRESS[i].address # selected[i].PrivateIP

\* C24: the phases are strictly ordered with a barrier after each.  A
\* download command is sent only after the upload and after every node's
\* environment submission was accepted, an execute command only after every
\* node's download submission was accepted; each node gets at most one
\* command per phase, in phase order; outside a phase every goroutine has
\* ended; no status is ever queried; and success (exit status 0) is reported
\* exactly when the run ended with every execute submission accepted.
C24_PhasesOrdered ==
    /\ AnySent("download") => AcceptedAll("environment") /\ <<"Uploaded", 0>> \in stdout
    /\ AnySent("execute") => AcceptedAll("download") /\ AcceptedAll("environment")
    /\ \A id \in NodeIds :
          /\ Len(sends[id]) <= Len(PhaseOrder)
          /\ \A k \in DOMAIN sends[id] : sends[id][k].kind = PhaseOrder[k]
          /\ sends[id] # <<>> => id \in {IdOf(i) : i \in Fleet}
    /\ (pc \notin DistPhases /\ Tasks # {}) => \A i \in Tasks : tpc[i] = "done"
    /\ queried = {} /\ lastResp = "none" /\ commandIDs = {}
    /\ pc = "exit" =>
          (exitCode = 0 <=>
              /\ Discovered /\ ~CapacityFailed
              /\ execErr = "nil"
              /\ AcceptedAll("execute")
              /\ \A i \in Fleet : Len(sends[IdOf(i)]) = Len(PhaseOrder))
    /\ (pc = "exit" /\ exitCode = 0) =>
          <<"Program executed successfully on all instances.", 0>> \in stdout

\* Success was reported for a full fleet on acceptance alone: one of the
\* execute invocations has in fact failed and nothing was queried.
C24_Witness ==
    /\ pc = "exit"
    /\ exitCode = 0
    /\ Len(selected) = MaxRequested
    /\ \E i \in Fleet : inv[IdOf(i)] = "Failed"
    /\ queried = {}
====
